---- MODULE Spec2Model ----
(***************************************************************************)
(* The GoDebug session controller (GoDebugInstance), its trace index       *)
(* (GDDataIndex, GDFileMsgs, GDLineMsgs, GDLineMsg) and the refresh path   *)
(* to the UI, as a state machine.  Indices keep the source's 0-based       *)
(* values; TLA+ sequences are 1-based, so slot i of a Go slice is element  *)
(* i+1 of the sequence that models it.  A Go pointer that may be nil is a  *)
(* sequence of length 0 (nil) or 1.                                        *)
(***************************************************************************)
EXTENDS Integers, Sequences, FiniteSets, TLC

\* ---------------------------------------------------------------- bounds
\* Successful handleLineMsg calls explored per index.
MaxApplied == 3
\* Closures pending on the UI goroutine's queue.
MaxQueue == 2
\* Successful handleLineMsg calls explored per index where the Print
\* gestures and the refresh of one file are explored.
MaxEvents == 2

\* ------------------------------------------------------------ input sets
\* Recorded / live file contents: (size, hash).
Content0 == [size |-> 100, hash |-> "H"]
Content1 == [size |-> 100, hash |-> "G"]
Contents == {Content0, Content1}

\* Names of the open files (ed.ERowInfos()); ERows(name) views each.
InfoNames == {"a", "B"}
ERows(name) == IF name = "a" THEN 2 ELSE 1

\* debug.AnnotatorFileData descriptors.
Afd(fi, name, n) ==
    [FileIndex |-> fi, Filename |-> name, FileSize |-> Content0.size,
     FileHash |-> Content0.hash, DebugLen |-> n]

\* debug.FilesDataMsg payloads the collaborator may send: well formed,
\* with file indices out of position order, repeated, past the table,
\* negative, and empty.
FilesDataMsgs ==
    { << Afd(0, "a", 2) >>,
      << Afd(0, "a", 2), Afd(1, "b", 1) >>,
      << Afd(1, "a", 1), Afd(0, "b", 2) >>,
      << Afd(0, "a", 1), Afd(0, "b", 1) >>,
      << Afd(1, "a", 1) >>,
      << Afd(-1, "a", 1) >>,
      << >> }

\* The well-formed ones among them, and the spec's scenario: one file with
\* three line slots.
WellFormedFilesDataMsgs ==
    { << Afd(0, "a", 3) >>,
      << Afd(0, "a", 2), Afd(1, "b", 1) >> }

\* debug.LineMsg: the indices tried reach one past either end of the largest
\* table.  Offset is the source offset of the annotated line, so a function
\* of the line; Item is the value reported, and the values of neighbouring
\* events differ (the k-th message carries ItemAt(k)).
FileIndexes == -1 .. 2
DebugIndexes == -1 .. 3
OffsetOf(f, d) == 20 + 10 * d + f
ItemAt(k) == 1 + (k % 2)
LineMsg(f, d, item) ==
    [FileIndex |-> f, DebugIndex |-> d, Offset |-> OffsetOf(f, d), Item |-> item]

\* --------------------------------------------------------------- helpers
\* strings.ToLower on the names used here.
ToLower(name) == IF name = "A" THEN "a" ELSE IF name = "B" THEN "b" ELSE name

\* godebug.StringifyItem: the display bytes of an item (one ASCII digit).
StringifyItem(item) == << 48 + item >>

\* []byte(" ")
SpaceBytes == << 32 >>

\* ------------------------------------------------------------ GDLineMsg
\* cachedAnn: <<>> (nil) or <<[Offset, Bytes]>>; itemBytes: <<>> is nil.
NewGDLineMsg(arrivalIndex, u) ==
    [arrivalIndex |-> arrivalIndex, dbgLineMsg |-> u,
     itemBytes |-> << >>, cachedAnn |-> << >>]

build(msg) ==
    IF msg.cachedAnn = << >>
    THEN [msg EXCEPT !.cachedAnn =
            << [Offset |-> msg.dbgLineMsg.Offset, Bytes |-> << >>] >>]
    ELSE msg

\* The stringified bytes reach the annotation only on the call that fills
\* the cache.
annotationFillOnly(msg) ==
    LET m1 == build(msg)
    IN  IF m1.itemBytes = << >>
        THEN [m1 EXCEPT !.itemBytes = StringifyItem(m1.dbgLineMsg.Item)]
        ELSE [m1 EXCEPT !.cachedAnn[1].Bytes = m1.itemBytes]

annotation(msg) ==
    LET m1 == build(msg)
        m2 == IF m1.itemBytes = << >>
              THEN [m1 EXCEPT !.itemBytes = StringifyItem(m1.dbgLineMsg.Item)]
              ELSE m1
    IN  [m2 EXCEPT !.cachedAnn[1].Bytes = m2.itemBytes]

emptyAnnotation(msg) ==
    LET m1 == build(msg)
    IN  [m1 EXCEPT !.cachedAnn[1].Bytes = SpaceBytes]

\* ----------------------------------------------------------- GDFileMsgs
\* AnnEntries[line] is a pointer to the cachedAnn of one of the line's
\* messages: -1 is nil, j >= 0 points at lineMsgs[j].cachedAnn.
NewGDFileMsgs(n) ==
    [LinesMsgs |-> [i \in 1 .. n |-> << >>],
     AnnEntries |-> [i \in 1 .. n |-> -1],
     AnnEntriesLMIndex |-> [i \in 1 .. n |-> 0]]

\* The closure handed to sort.Search: lineMsgs[i].arrivalIndex > arrivalIndex.
searchPredInclusive(lineMsgs, arrivalIndex, i) ==
    lineMsgs[i + 1].arrivalIndex >= arrivalIndex

searchPred(lineMsgs, arrivalIndex, i) ==
    lineMsgs[i + 1].arrivalIndex > arrivalIndex

\* sort.Search(n, f): the smallest i in [0, n) with f(i), else n, by bisection.
RECURSIVE sortSearch(_, _, _, _)
sortSearch(lineMsgs, arrivalIndex, i, j) ==
    IF i < j
    THEN LET h == (i + j) \div 2
         IN  IF ~searchPred(lineMsgs, arrivalIndex, h)
             THEN sortSearch(lineMsgs, arrivalIndex, h + 1, j)
             ELSE sortSearch(lineMsgs, arrivalIndex, i, h)
    ELSE i

\* One iteration of the loop over file.LinesMsgs (line is 0-based).
findLine(acc, arrivalIndex, line) ==
    LET lm == acc.file.LinesMsgs[line + 1]
        k  == sortSearch(lm, arrivalIndex, 0, Len(lm)) - 1
    IN  IF k < 0
        THEN IF Len(lm) > 0
             THEN [acc EXCEPT
                     !.file.LinesMsgs[line + 1][1] = emptyAnnotation(lm[1]),
                     !.file.AnnEntries[line + 1] = 0,
                     !.file.AnnEntriesLMIndex[line + 1] = k]
             ELSE [acc EXCEPT
                     !.file.AnnEntries[line + 1] = -1,
                     !.file.AnnEntriesLMIndex[line + 1] = k]
        ELSE LET hit == lm[k + 1].arrivalIndex = arrivalIndex
             IN  [file |-> [acc.file EXCEPT
                              !.LinesMsgs[line + 1][k + 1] = annotation(lm[k + 1]),
                              !.AnnEntries[line + 1] = k,
                              !.AnnEntriesLMIndex[line + 1] = k],
                  selLine |-> IF hit THEN line ELSE acc.selLine,
                  selLineStep |-> IF hit THEN k ELSE acc.selLineStep,
                  found |-> acc.found \/ hit]

RECURSIVE findLoop(_, _, _)
findLoop(acc, arrivalIndex, line) ==
    IF line >= Len(acc.file.LinesMsgs)
    THEN acc
    ELSE findLoop(findLine(acc, arrivalIndex, line), arrivalIndex, line + 1)

\* Returns the updated file and (selLine, selLineStep, found).
findSelectedAndUpdateAnnEntries(file, arrivalIndex) ==
    findLoop([file |-> file, selLine |-> 0, selLineStep |-> 0, found |-> FALSE],
             arrivalIndex, 0)

\* The annotation AnnEntries[line] points at, as the drawer reads it:
\* <<>> for a nil entry, else <<[Offset, Bytes]>>.
annEntry(file, line) ==
    IF file.AnnEntries[line + 1] < 0
    THEN << >>
    ELSE file.LinesMsgs[line + 1][file.AnnEntries[line + 1] + 1].cachedAnn

annEntries(file) == [i \in 1 .. Len(file.AnnEntries) |-> annEntry(file, i - 1)]

\* ---------------------------------------------------------- GDDataIndex
\* filesIndexM is a function from keys to file indices; Afds and Files are
\* indexed by file index; an element of Files is <<>> (nil) or <<file>>.
FilesIndexKey(caseInsensitive, name) ==
    IF caseInsensitive THEN ToLower(name) ELSE name

\* A nil *GDFileMsgs in di.Files is dereferenced by the loop (f.LinesMsgs).
clearMsgsPanics(di) == \E i \in 1 .. Len(di.Files) : di.Files[i] = << >>

\* The position of the first nil record of the table, past its end when
\* there is none.
firstNil(di) ==
    LET S == {i \in 1 .. Len(di.Files) : di.Files[i] = << >>}
    IN  IF S = {} THEN Len(di.Files) + 1 ELSE CHOOSE i \in S : \A j \in S : i <= j

\* clearMsgs: the loop replaces the records in table order and panics at
\* the first nil one, before the counter and the cursor are reset.
clearMsgs(di) ==
    LET n  == firstNil(di)
        d1 == [di EXCEPT
                 !.Files = [i \in 1 .. Len(di.Files) |->
                              IF i < n
                              THEN << NewGDFileMsgs(Len(di.Files[i][1].LinesMsgs)) >>
                              ELSE di.Files[i]]]
    IN  IF clearMsgsPanics(di)
        THEN d1
        ELSE [d1 EXCEPT !.lastArrivalIndex = -1, !.selected.arrivalIndex = -1]

NewGDDataIndex(caseInsensitive) ==
    clearMsgs([FsCaseInsensitive |-> caseInsensitive,
               filesIndexM |-> [k \in {} |-> 0],
               lastArrivalIndex |-> 0,
               selected |-> [arrivalIndex |-> 0, fileIndex |-> 0, lineIndex |-> 0,
                             lineStepIndex |-> 0, edited |-> FALSE],
               Afds |-> << >>,
               Files |-> << >>])

\* FilesIndex: (v, ok) of the map lookup.
FilesIndexOk(di, name) ==
    FilesIndexKey(di.FsCaseInsensitive, name) \in DOMAIN di.filesIndexM

FilesIndex(di, name) == di.filesIndexM[FilesIndexKey(di.FsCaseInsensitive, name)]

\* The first loop of handleFilesDataMsg: later descriptors overwrite earlier
\* ones with the same key.
RECURSIVE indexFilenames(_, _, _)
indexFilenames(di, m, i) ==
    IF i > Len(di.Afds)
    THEN m
    ELSE LET key == FilesIndexKey(di.FsCaseInsensitive, di.Afds[i].Filename)
         IN  indexFilenames(di,
                [k \in DOMAIN m \cup {key} |->
                    IF k = key THEN di.Afds[i].FileIndex ELSE m[k]],
                i + 1)

\* The second loop: result [di, err, panic].  A file index >= len(di.Files)
\* returns the error with the table left as built so far; a negative one
\* indexes the slice out of range.
RECURSIVE initFiles(_, _)
initFiles(di, i) ==
    IF i > Len(di.Afds)
    THEN [di |-> di, err |-> "", panic |-> FALSE]
    ELSE LET afd == di.Afds[i]
         IN  IF afd.FileIndex >= Len(di.Files)
             THEN [di |-> di, err |-> "bad file index at init", panic |-> FALSE]
             ELSE IF afd.FileIndex < 0
             THEN [di |-> di, err |-> "", panic |-> TRUE]
             ELSE initFiles([di EXCEPT !.Files[afd.FileIndex + 1] =
                                         << NewGDFileMsgs(afd.DebugLen) >>],
                            i + 1)

handleFilesDataMsg(di, fdm) ==
    LET d1 == [di EXCEPT !.Afds = fdm]
        d2 == [d1 EXCEPT !.filesIndexM = indexFilenames(d1, [k \in {} |-> 0], 1)]
        d3 == [d2 EXCEPT !.Files = [i \in 1 .. Len(fdm) |-> << >>]]
    IN  initFiles(d3, 1)

\* The cursor follows the counter on every append, wherever it was.
followAlways(di) ==
    [di EXCEPT !.selected.arrivalIndex = di.lastArrivalIndex]

\* "auto update selected index if at last position", after the append.
followLatest(di) ==
    IF di.selected.arrivalIndex = di.lastArrivalIndex - 1
    THEN [di EXCEPT !.selected.arrivalIndex = di.lastArrivalIndex]
    ELSE di

\* The arrival index given to a new message, from the counter before it.
nextArrivalIndex(lastArrivalIndex) == lastArrivalIndex + 1

\* handleLineMsg: result [di, err, panic].  The two checks reject indices
\* past the table.  A negative file index, or a nil file record, panics in
\* the second check; a negative debug index passes both checks and panics
\* at the append, after the counter was incremented.
handleLineMsg(di, u) ==
    LET l1 == Len(di.Files)
    IN  IF u.FileIndex >= l1
        THEN [di |-> di, err |-> "bad file index", panic |-> FALSE]
        ELSE IF u.FileIndex < 0 \/ di.Files[u.FileIndex + 1] = << >>
        THEN [di |-> di, err |-> "", panic |-> TRUE]
        ELSE LET l2 == Len(di.Files[u.FileIndex + 1][1].LinesMsgs)
             IN  IF u.DebugIndex >= l2
                 THEN [di |-> di, err |-> "bad debug index", panic |-> FALSE]
                 ELSE IF u.DebugIndex < 0
                 THEN [di |-> [di EXCEPT !.lastArrivalIndex = nextArrivalIndex(@)],
                       err |-> "", panic |-> TRUE]
                 ELSE LET n  == nextArrivalIndex(di.lastArrivalIndex)
                          lm == NewGDLineMsg(n, u)
                          d1 == [di EXCEPT
                                   !.lastArrivalIndex = n,
                                   !.Files[u.FileIndex + 1][1]
                                       .LinesMsgs[u.DebugIndex + 1] = Append(@, lm)]
                      IN  [di |-> followLatest(d1), err |-> "", panic |-> FALSE]

\* ------------------------------------------------------------------ state
VARIABLES
    dataIndex,   \* gdi.data.dataIndex: <<>> (nil) or <<di>>
    live,        \* the current content (size, hash) of each open file
    uiCalls,     \* per open file, the calls the last step made on the UI side
    uiQueue,     \* closures handed to RunOnUIGoRoutine, not yet run
    panicked,    \* a Go runtime panic has ended the process
    shown,       \* what the last step's showSelectedLine did
    ret,         \* what findSelectedAndUpdateAnnEntries returned in the last step
    lastOp,      \* the last step's operation and what it returned
    assigned,    \* arrival indices given out by handleLineMsg, in call order
    runs,        \* per run: where its closure is, its ctx2, its timer, its messages
    ready,       \* gdi.ready: 0 when unlocked, else the run holding it
    gdiCancel,   \* gdi.cancel: 0 for func() {}, else the run whose cancel it is
    uiPc,        \* where the UI goroutine is inside CancelAndClear or a gesture
    indexRun,    \* the run whose closure created the current index (0: none)
    displayRun,  \* the run whose events the views' annotation lists came from
    applied,     \* the messages applied to an index: by which run, to whose index
    cancelReturned, \* the runs past the gate when a CancelAndClear was called
                 \* that has since returned
    mu,          \* gdi.data.mu: the goroutine holding it locked, those holding
                 \* it read-locked
    crit         \* per goroutine followed through its critical sections: ""
                 \* outside, "W" past dataLock / mu.Lock, "R" past dataRLock

ctlVars == << runs, ready, gdiCancel, uiPc, indexRun, applied, cancelReturned >>

lockVars == << mu, crit >>

vars == << dataIndex, live, uiCalls, uiQueue, panicked, shown, ret, lastOp,
           assigned, ctlVars, displayRun, lockVars >>

\* ------------------------------------------------------------ gdi.data.mu
\* The goroutines that take gdi.data.mu: the UI goroutine, which handles the
\* gestures and CancelAndClear and runs the closures handed to it, and the
\* goroutine of the closure of each run, which installs the index and runs
\* the loop.
UI == << "ui", 0 >>
Go(r) == << "run", r >>

\* The sync.RWMutex with no holder.
FreeMu == [w |-> << >>, r |-> {}]

\* mu.Lock() returns once no goroutine holds the mutex, locked or
\* read-locked.
canLock(m) == m.w = << >> /\ m.r = {}

\* mu.RLock() never waits.
canRLockAlways(m) == TRUE

\* mu.RLock() returns once no goroutine holds the mutex locked.
canRLock(m) == m.w = << >>

\* gdi.data.mu.Lock(), Unlock(), RLock() and RUnlock() by goroutine g.
muLock(m, g) == [m EXCEPT !.w = << g >>]
muUnlock(m) == [m EXCEPT !.w = << >>]
muRLock(m, g) == [m EXCEPT !.r = @ \cup {g}]
muRUnlock(m, g) == [m EXCEPT !.r = @ \ {g}]

\* No goroutine is followed through its critical sections: a critical
\* section is then one step, from the lock to the unlock.
NotFollowed == << >>

\* The step is the critical section of goroutine g under dataLock or
\* mu.Lock (kind "W") or under dataRLock (kind "R"), up to the unlock.  Where
\* g is followed, g has taken the lock in an earlier step and the step ends
\* with dataUnlock / dataRUnlock (also inside dataLock / dataRLock when there
\* is no index).
Section(g, kind) ==
    IF g \in DOMAIN crit
    THEN /\ crit[g] = kind
         /\ mu' = IF kind = "W" THEN muUnlock(mu) ELSE muRUnlock(mu, g)
         /\ crit' = [crit EXCEPT ![g] = ""]
    ELSE UNCHANGED lockVars

\* The step is made by goroutine g outside its critical sections.
Outside(g) ==
    /\ g \in DOMAIN crit => crit[g] = ""
    /\ UNCHANGED lockVars

\* --------------------------------------------------------------- UI side
\* No call was made for a file: called = FALSE.
NoCall == [called |-> FALSE, rowState |-> FALSE, editedState |-> FALSE,
           views |-> << >>]

NoCalls == [name \in InfoNames |-> NoCall]

\* clearDrawerAnn: setAnnotations(erow, false, 0, nil) on every view.
clearedViews(name) ==
    [i \in 1 .. ERows(name) |-> [on |-> FALSE, selIndex |-> 0, entries |-> << >>]]

\* clearInfoUI: both row states off, clearDrawerAnn.
clearInfoUI(u, name) ==
    [u EXCEPT ![name] = [called |-> TRUE, rowState |-> FALSE,
                         editedState |-> FALSE, views |-> clearedViews(name)]]

clearInfosUI(u) ==
    [name \in InfoNames |->
        [called |-> TRUE, rowState |-> FALSE, editedState |-> FALSE,
         views |-> clearedViews(name)]]

\* info.EqualToBytesHash(size, hash)
EqualToBytesHash(content, size, hash) == content.size = size /\ content.hash = hash

NoFind == [selLine |-> 0, selLineStep |-> 0, found |-> FALSE, ran |-> FALSE]

\* The staleness test taken the wrong way round.
editedInverted(content, afd) == EqualToBytesHash(content, afd.FileSize, afd.FileHash)

\* "check if content has changed"
edited(content, afd) == ~EqualToBytesHash(content, afd.FileSize, afd.FileHash)

\* updateInfoUI on s = [di, ui, find, panic] for the open file `name` whose
\* current content is `content`.  A file index outside di.Files, or a nil
\* record there, panics after UpdateAnnotationsRowState(true).
updateInfoUI(s, name, content) ==
    IF s.panic THEN s
    ELSE IF ~FilesIndexOk(s.di, name)
    THEN [s EXCEPT !.ui = clearInfoUI(s.ui, name)]
    ELSE
      LET di     == s.di
          findex == FilesIndex(di, name)
          ui1    == [s.ui EXCEPT ![name].called = TRUE, ![name].rowState = TRUE]
      IN  IF findex < 0 \/ findex >= Len(di.Files) \/ di.Files[findex + 1] = << >>
          THEN [s EXCEPT !.ui = ui1, !.panic = TRUE]
          ELSE
            LET r  == findSelectedAndUpdateAnnEntries(di.Files[findex + 1][1],
                                                      di.selected.arrivalIndex)
                d1 == [di EXCEPT !.Files[findex + 1] = << r.file >>]
                d2 == IF r.found
                      THEN [d1 EXCEPT !.selected.edited = FALSE,
                                      !.selected.fileIndex = findex,
                                      !.selected.lineIndex = r.selLine,
                                      !.selected.lineStepIndex = r.selLineStep]
                      ELSE d1
                f1 == [s.find EXCEPT ![name] =
                         [selLine |-> r.selLine, selLineStep |-> r.selLineStep,
                          found |-> r.found, ran |-> TRUE]]
            IN  IF edited(content, di.Afds[findex + 1])
                THEN [di |-> IF r.found THEN [d2 EXCEPT !.selected.edited = TRUE]
                             ELSE d2,
                      ui |-> [ui1 EXCEPT ![name].editedState = TRUE,
                                         ![name].views = clearedViews(name)],
                      find |-> f1, panic |-> FALSE]
                ELSE [di |-> d2,
                      ui |-> [ui1 EXCEPT
                                ![name].editedState = FALSE,
                                ![name].views =
                                   [i \in 1 .. ERows(name) |->
                                      [on |-> TRUE, selIndex |-> r.selLine,
                                       entries |-> annEntries(r.file)]]],
                      find |-> f1, panic |-> FALSE]

\* updateUI2: updateInfoUI over ed.ERowInfos(), in the order given.
RECURSIVE updateUI2(_, _, _)
updateUI2(s, order, contents) ==
    IF order = << >> THEN s
    ELSE updateUI2(updateInfoUI(s, Head(order), contents[Head(order)]),
                   Tail(order), contents)

NotShown == [kind |-> "none", Filename |-> "", Offset |-> 0, arrivalIndex |-> -1]

\* showSelectedLine: [shown, panic].
showSelectedLine(di) ==
    LET sel == di.selected
    IN  IF sel.arrivalIndex < 0
        THEN [shown |-> NotShown, panic |-> FALSE]
        ELSE IF sel.fileIndex >= Len(di.Afds)
        THEN [shown |-> NotShown, panic |-> TRUE]
        ELSE IF sel.edited
        THEN [shown |-> [kind |-> "warning",
                         Filename |-> di.Afds[sel.fileIndex + 1].Filename,
                         Offset |-> 0, arrivalIndex |-> sel.arrivalIndex],
              panic |-> FALSE]
        ELSE IF di.Files[sel.fileIndex + 1] = << >>
                \/ sel.lineIndex >= Len(di.Files[sel.fileIndex + 1][1].LinesMsgs)
        THEN [shown |-> NotShown, panic |-> TRUE]
        ELSE
          LET lm == di.Files[sel.fileIndex + 1][1].LinesMsgs[sel.lineIndex + 1]
          IN  IF sel.lineStepIndex >= Len(lm)
              THEN [shown |-> NotShown, panic |-> FALSE]
              ELSE [shown |-> [kind |-> "open",
                               Filename |-> di.Afds[sel.fileIndex + 1].Filename,
                               Offset |-> lm[sel.lineStepIndex + 1].dbgLineMsg.Offset,
                               arrivalIndex |-> lm[sel.lineStepIndex + 1].arrivalIndex],
                    panic |-> FALSE]

\* ------------------------------------------------------ selection gestures
\* Results are [di, changed, panic].
selectNext(di) ==
    IF di.selected.arrivalIndex < di.lastArrivalIndex
    THEN [di |-> [di EXCEPT !.selected.arrivalIndex = @ + 1],
          changed |-> TRUE, panic |-> FALSE]
    ELSE [di |-> di, changed |-> FALSE, panic |-> FALSE]

\* The lower bound is tested against -1 instead of 0.
selectPrevBelowZero(di) ==
    IF di.selected.arrivalIndex > -1
    THEN [di |-> [di EXCEPT !.selected.arrivalIndex = @ - 1],
          changed |-> TRUE, panic |-> FALSE]
    ELSE [di |-> di, changed |-> FALSE, panic |-> FALSE]

selectPrev(di) ==
    IF di.selected.arrivalIndex > 0
    THEN [di |-> [di EXCEPT !.selected.arrivalIndex = @ - 1],
          changed |-> TRUE, panic |-> FALSE]
    ELSE [di |-> di, changed |-> FALSE, panic |-> FALSE]

selectFirst(di) ==
    [di |-> [di EXCEPT !.selected.arrivalIndex = 0],
     changed |-> TRUE, panic |-> FALSE]

selectLast(di) ==
    [di |-> IF di.selected.arrivalIndex < di.lastArrivalIndex
            THEN [di EXCEPT !.selected.arrivalIndex = di.lastArrivalIndex]
            ELSE di,
     changed |-> TRUE, panic |-> FALSE]

\* case ui.RootSelAnnTypeClear: gdi.data.dataIndex.clearMsgs(); return true
selectClear(di) ==
    IF clearMsgsPanics(di)
    THEN [di |-> clearMsgs(di), changed |-> FALSE, panic |-> TRUE]
    ELSE [di |-> clearMsgs(di), changed |-> TRUE, panic |-> FALSE]

\* currentAnnotationFileLine: [ok, panic, fi].
currentAnnotationFileLine(di, name, annIndex) ==
    IF ~FilesIndexOk(di, name)
    THEN [ok |-> FALSE, panic |-> FALSE, fi |-> 0]
    ELSE LET fi == FilesIndex(di, name)
         IN  IF fi < 0 \/ fi >= Len(di.Files)
             THEN [ok |-> FALSE, panic |-> TRUE, fi |-> fi]
             ELSE IF annIndex < 0
             THEN [ok |-> FALSE, panic |-> FALSE, fi |-> fi]
             ELSE IF di.Files[fi + 1] = << >>
             THEN [ok |-> FALSE, panic |-> TRUE, fi |-> fi]
             ELSE IF annIndex >= Len(di.Files[fi + 1][1].AnnEntriesLMIndex)
             THEN [ok |-> FALSE, panic |-> FALSE, fi |-> fi]
             ELSE [ok |-> TRUE, panic |-> FALSE, fi |-> fi]

\* "currently nothing is shown, use first"
shownOrFirst(k) == IF k < 0 THEN 0 ELSE k

\* The step forward is refused one position too late.
canStepNextLate(k, n) == ~(k >= n)

\* case ui.TASelAnnTypeCurrentNext: if k >= len(line.lineMsgs)-1 { return false }
canStepNext(k, n) == ~(k >= n - 1)

\* case ui.TASelAnnTypeCurrentPrev: if k == 0 { return false }
canStepPrev(k) == ~(k = 0)

selectCurrent(di, name, annIndex, typ) ==
    LET c == currentAnnotationFileLine(di, name, annIndex)
    IN  IF ~c.ok
        THEN [di |-> di, changed |-> FALSE, panic |-> c.panic]
        ELSE
          LET file == di.Files[c.fi + 1][1]
              line == file.LinesMsgs[annIndex + 1]
              k0   == shownOrFirst(file.AnnEntriesLMIndex[annIndex + 1])
              stop == \/ typ = "CurrentPrev" /\ ~canStepPrev(k0)
                      \/ typ = "CurrentNext" /\ ~canStepNext(k0, Len(line))
              k    == IF typ = "CurrentPrev" THEN k0 - 1
                      ELSE IF typ = "CurrentNext" THEN k0 + 1
                      ELSE k0
          IN  IF stop
              THEN [di |-> di, changed |-> FALSE, panic |-> FALSE]
              ELSE IF k < 0 \/ k >= Len(line)
              THEN [di |-> di, changed |-> FALSE, panic |-> TRUE]
              ELSE [di |-> [di EXCEPT !.selected.arrivalIndex = line[k + 1].arrivalIndex],
                    changed |-> TRUE, panic |-> FALSE]

\* printIndex: [out, panic], out being the items handed to ed.Messagef
\* (<< >> when nothing is printed).
printIndex(di, name, annIndex) ==
    LET c == currentAnnotationFileLine(di, name, annIndex)
    IN  IF ~c.ok
        THEN [out |-> << >>, panic |-> c.panic]
        ELSE
          LET file == di.Files[c.fi + 1][1]
              line == file.LinesMsgs[annIndex + 1]
              k    == file.AnnEntriesLMIndex[annIndex + 1]
          IN  IF k < 0
              THEN [out |-> << >>, panic |-> FALSE]
              ELSE IF k >= Len(line)
              THEN [out |-> << >>, panic |-> TRUE]
              ELSE [out |-> << line[k + 1].dbgLineMsg.Item >>, panic |-> FALSE]

\* printIndexAll: the items of line.lineMsgs[:k+1], in order.
printIndexAll(di, name, annIndex) ==
    LET c == currentAnnotationFileLine(di, name, annIndex)
    IN  IF ~c.ok
        THEN [out |-> << >>, panic |-> c.panic]
        ELSE
          LET file == di.Files[c.fi + 1][1]
              line == file.LinesMsgs[annIndex + 1]
              k    == file.AnnEntriesLMIndex[annIndex + 1]
          IN  IF k < 0
              THEN [out |-> << >>, panic |-> FALSE]
              ELSE IF k + 1 > Len(line)
              THEN [out |-> << >>, panic |-> TRUE]
              ELSE [out |-> [i \in 1 .. k + 1 |-> line[i].dbgLineMsg.Item],
                    panic |-> FALSE]

\* ----------------------------------------------- history of the last call
NoRet == [n \in InfoNames |-> NoFind]

\* op: the operation; name, annIndex: the target of a per-line gesture that
\* reported a change; cursorBefore, lastBefore: the cursor and the arrival
\* counter when the operation was called; changed: what it reported;
\* nextFrom: after a Next, after the refreshes that follow it and after the
\* Prev that comes next, << the cursor that Next was called at >> (NoNext
\* otherwise: some other operation came between).
NoNext == << >>

\* What the loop did in one step: the run, the message received (its id,
\* "" for a timer firing or a return), the control calls made on cmd, and
\* the timer and the refresh request around it.  << >> outside the loop.
NoLoop == << >>

\* The closures handed to the UI goroutine: each runs under dataRLock.
RefreshClosures == {"updateUI", "updateUIShowLine", "updateInfoUI"}

OpRec(op, name, annIndex, di, changed, err) ==
    [op |-> op, loop |-> NoLoop, out |-> << >>,
     name |-> IF changed THEN name ELSE "",
     annIndex |-> IF changed THEN annIndex ELSE 0,
     cursorBefore |-> di.selected.arrivalIndex,
     lastBefore |-> di.lastArrivalIndex,
     changed |-> changed, err |-> err,
     nextFrom |-> NoNext]

NoOp == [op |-> "new", loop |-> NoLoop, out |-> << >>,
         name |-> "", annIndex |-> 0, cursorBefore |-> -1,
         lastBefore |-> -1, changed |-> FALSE, err |-> "", nextFrom |-> NoNext]

\* The cursor the latest Next was called at, while only refreshes followed.
NextFrom ==
    IF lastOp.op \in {"Next", "updateUI", "updateUIShowLine", "updateInfoUI"}
    THEN lastOp.nextFrom
    ELSE NoNext

Closure(fn, name) == [fn |-> fn, name |-> name]

AnnIndexes == -1 .. 3
LineGestures == {"Current", "CurrentPrev", "CurrentNext"}
InfoOrders == { << "a", "B" >>, << "B", "a" >> }

\* ------------------------------------------------- actions on the index
\* gdi.handleFilesDataMsg under dataLock.
HandleFilesDataMsg(fdm) ==
    /\ ~panicked /\ dataIndex # << >>
    /\ Section(Go(1), "W")
    /\ LET r == handleFilesDataMsg(dataIndex[1], fdm)
       IN  /\ dataIndex' = << r.di >>
           /\ panicked' = r.panic
           /\ lastOp' = OpRec("handleFilesDataMsg", "", 0, dataIndex[1], FALSE, r.err)
    /\ uiCalls' = NoCalls /\ shown' = NotShown /\ ret' = NoRet
    /\ UNCHANGED << live, uiQueue, assigned, ctlVars, displayRun >>

\* gdi.handleLineMsg under dataLock.
HandleLineMsg(f, d) ==
    /\ ~panicked /\ dataIndex # << >>
    /\ Section(Go(1), "W")
    /\ Len(assigned) < MaxApplied
    /\ LET u  == LineMsg(f, d, ItemAt(Len(assigned)))
           r  == handleLineMsg(dataIndex[1], u)
           ok == r.err = "" /\ ~r.panic
       IN  /\ dataIndex' = << r.di >>
           /\ panicked' = r.panic
           /\ lastOp' = OpRec("handleLineMsg", "", 0, dataIndex[1], ok, r.err)
           /\ assigned' = IF ok
                          THEN Append(assigned,
                                 LET lm == r.di.Files[f + 1][1].LinesMsgs[d + 1]
                                 IN  lm[Len(lm)].arrivalIndex)
                          ELSE assigned
    /\ uiCalls' = NoCalls /\ shown' = NotShown /\ ret' = NoRet
    /\ UNCHANGED << live, uiQueue, ctlVars, displayRun >>

\* The UI goroutine is outside CancelAndClear and outside a gesture.
UIIdle == [at |-> "idle", launch |-> 0, inGate |-> {}]

\* The UI goroutine is inside SelectAnnotation / SelectERowAnnotation: the
\* selection reported a change and released the data lock, updateUIShowLine
\* is not called yet.
ShowLinePending == [at |-> "updateUIShowLine", launch |-> 0, inGate |-> {}]

\* SelectAnnotation / SelectERowAnnotation up to the return of
\* selectAnnotation2 / selectERowAnnotation2: the selection under dataLock.
\* r is [di, changed, panic].
Gesture(op, name, annIndex, r) ==
    /\ uiPc = UIIdle
    /\ Section(UI, "W")
    /\ r.changed => Len(uiQueue) < MaxQueue
    /\ dataIndex' = << r.di >>
    /\ panicked' = r.panic
    /\ lastOp' = [OpRec(op, name, annIndex, dataIndex[1], r.changed, "")
                    EXCEPT !.nextFrom = IF op = "Next"
                                        THEN << dataIndex[1].selected.arrivalIndex >>
                                        ELSE IF op = "Prev" THEN NextFrom
                                        ELSE NoNext]
    /\ uiPc' = IF r.changed THEN ShowLinePending ELSE UIIdle
    /\ uiCalls' = NoCalls /\ shown' = NotShown /\ ret' = NoRet
    /\ UNCHANGED << live, uiQueue, assigned, runs, ready, gdiCancel, indexRun,
                    applied, cancelReturned, displayRun >>

\* The rest of SelectAnnotation / SelectERowAnnotation: updateUIShowLine
\* hands its closure to the UI goroutine.  The data lock is free meanwhile.
UpdateUIShowLine ==
    /\ ~panicked
    /\ uiPc = ShowLinePending
    /\ Outside(UI)
    /\ uiQueue' = Append(uiQueue, Closure("updateUIShowLine", ""))
    /\ uiPc' = UIIdle
    /\ UNCHANGED << dataIndex, live, uiCalls, panicked, shown, ret, lastOp,
                    assigned, runs, ready, gdiCancel, indexRun,
                    applied, cancelReturned, displayRun >>

SelectFirst ==
    /\ ~panicked /\ dataIndex # << >>
    /\ Gesture("First", "", 0, selectFirst(dataIndex[1]))

SelectLast ==
    /\ ~panicked /\ dataIndex # << >>
    /\ Gesture("Last", "", 0, selectLast(dataIndex[1]))

SelectPrev ==
    /\ ~panicked /\ dataIndex # << >>
    /\ Gesture("Prev", "", 0, selectPrev(dataIndex[1]))

SelectNext ==
    /\ ~panicked /\ dataIndex # << >>
    /\ Gesture("Next", "", 0, selectNext(dataIndex[1]))

SelectClear ==
    /\ ~panicked /\ dataIndex # << >>
    /\ Gesture("Clear", "", 0, selectClear(dataIndex[1]))

\* SelectERowAnnotation with Current / CurrentPrev / CurrentNext.
SelectCurrent(name, annIndex, typ) ==
    /\ ~panicked /\ dataIndex # << >>
    /\ Gesture(typ, name, annIndex, selectCurrent(dataIndex[1], name, annIndex, typ))

PrintGestures == {"Print", "PrintAll"}

\* SelectERowAnnotation with TASelAnnTypePrint / TASelAnnTypePrintAll:
\* printIndex / printIndexAll under dataLock; it reports no change, so no
\* refresh follows.
PrintIndex(name, annIndex, typ) ==
    /\ ~panicked /\ dataIndex # << >>
    /\ uiPc = UIIdle
    /\ Section(UI, "W")
    /\ LET r == IF typ = "Print"
                THEN printIndex(dataIndex[1], name, annIndex)
                ELSE printIndexAll(dataIndex[1], name, annIndex)
           said == r.out # << >> \/ r.panic
       IN  /\ panicked' = r.panic
           /\ lastOp' = [OpRec(typ, "", 0, dataIndex[1], FALSE, "")
                           EXCEPT !.out = r.out,
                                  !.name = IF said THEN name ELSE "",
                                  !.annIndex = IF said THEN annIndex ELSE 0]
    /\ uiCalls' = NoCalls /\ shown' = NotShown /\ ret' = NoRet
    /\ UNCHANGED << dataIndex, live, uiQueue, assigned, ctlVars,
                    displayRun >>

\* ------------------------------------------------------- the run control
MaxRuns == 2
Runs == 1 .. MaxRuns

\* fatal, timers and dirty are history: a fatal error was handled, the
\* timers the loop has armed that have not fired yet, and whether a message
\* was handled since the loop last asked for a refresh.  pending is what
\* handleMsg has done of the message it is in the middle of.
NewRun == [pc |-> "new", ctxDone |-> FALSE, updatec |-> FALSE, handled |-> 0,
           fatal |-> FALSE, timers |-> 0, dirty |-> FALSE, pending |-> << >>]

InitCtl ==
    /\ runs = [r \in Runs |-> NewRun]
    /\ ready = 0
    /\ gdiCancel = 0
    /\ uiPc = UIIdle
    /\ indexRun = 0
    /\ displayRun = 0
    /\ applied = {}
    /\ cancelReturned = {}
    /\ mu = FreeMu

\* ------------------------------------------------ actions on the UI side
\* The state a refresh closure works on.
UIState == [di |-> dataIndex[1], ui |-> NoCalls, find |-> NoRet, panic |-> FALSE]

\* Some view was handed a list with an annotation in it.
listsShown(u) ==
    \E n \in InfoNames : \E v \in 1 .. Len(u[n].views) :
        /\ u[n].views[v].on
        /\ \E e \in 1 .. Len(u[n].views[v].entries) : u[n].views[v].entries[e] # << >>

\* A refresh closure run by the UI goroutine, holding dataRLock: updateUI2
\* (and then showSelectedLine), or updateInfoUI for one file.
Refresh(fn, name, order) ==
    LET s1 == IF fn = "updateInfoUI"
              THEN updateInfoUI(UIState, name, live[name])
              ELSE updateUI2(UIState, order, live)
        sh == IF fn = "updateUIShowLine" /\ ~s1.panic
              THEN showSelectedLine(s1.di)
              ELSE [shown |-> NotShown, panic |-> s1.panic]
    IN  /\ dataIndex' = << s1.di >>
        /\ uiCalls' = s1.ui
        /\ panicked' = sh.panic
        /\ shown' = sh.shown
        /\ ret' = s1.find
        /\ lastOp' = [OpRec(fn, name, 0, dataIndex[1], FALSE, "")
                        EXCEPT !.nextFrom = NextFrom]
        /\ displayRun' = IF listsShown(s1.ui) THEN indexRun
                         ELSE IF fn = "updateInfoUI" THEN displayRun
                         ELSE 0

\* RunOnUIGoRoutine(closure): the closure joins the UI goroutine's queue and
\* the caller goes on; nothing of the index is read before the closure runs.
\* The queue keeps room for the closure of a gesture that is under way.
Enqueue(fn, name) ==
    /\ Len(uiQueue) + (IF uiPc = ShowLinePending THEN 1 ELSE 0) < MaxQueue
    /\ uiQueue' = Append(uiQueue, Closure(fn, name))
    /\ UNCHANGED << dataIndex, live, uiCalls, panicked, shown, ret, lastOp,
                    assigned, ctlVars, displayRun, lockVars >>

\* gdi.updateUI(), called on the goroutine of the run: the closure is
\* queued whether or not there is an index.
UpdateUI ==
    /\ ~panicked
    /\ Enqueue("updateUI", "")

\* gdi.UpdateUIERowInfo(info), called by the editor for one file.
UpdateUIERowInfo(name) ==
    /\ ~panicked
    /\ Enqueue("updateInfoUI", name)

\* The UI goroutine runs the closure at the head of its queue.
RunClosure(order) ==
    /\ ~panicked /\ dataIndex # << >>
    /\ uiPc = UIIdle
    /\ Section(UI, "R")
    /\ uiQueue # << >>
    /\ uiQueue' = Tail(uiQueue)
    /\ Refresh(Head(uiQueue).fn, Head(uiQueue).name, order)
    /\ UNCHANGED << live, assigned, ctlVars >>

\* The user edits, or restores, the content of an open file.
EditFile(name, content) ==
    /\ ~panicked
    /\ uiPc = UIIdle
    /\ Outside(UI)
    /\ live[name] # content
    /\ live' = [live EXCEPT ![name] = content]
    /\ lastOp' = [NoOp EXCEPT !.op = "edit", !.name = name]
    /\ uiCalls' = NoCalls /\ shown' = NotShown /\ ret' = NoRet
    /\ UNCHANGED << dataIndex, uiQueue, panicked, assigned, ctlVars,
                    displayRun >>

\* --------------------------------------------------------------- SpecIndex
\* One trace index from NewGDDataIndex on: file metadata and line messages
\* in any order, the global selection gestures, and the closures they queue.
InitWith(caseInsensitive) ==
    /\ dataIndex = << NewGDDataIndex(caseInsensitive) >>
    /\ live = [n \in InfoNames |-> Content0]
    /\ uiCalls = NoCalls
    /\ uiQueue = << >>
    /\ panicked = FALSE
    /\ shown = NotShown
    /\ ret = NoRet
    /\ lastOp = NoOp
    /\ assigned = << >>
    /\ InitCtl
    /\ crit = NotFollowed

InitIndex == InitWith(TRUE)

NextIndex ==
    \/ \E fdm \in FilesDataMsgs : HandleFilesDataMsg(fdm)
    \/ \E f \in FileIndexes, d \in DebugIndexes : HandleLineMsg(f, d)
    \/ SelectFirst
    \/ SelectLast
    \/ SelectPrev
    \/ SelectNext
    \/ SelectClear
    \/ UpdateUIShowLine
    \/ \E o \in InfoOrders : RunClosure(o)

SpecIndex == InitIndex /\ [][NextIndex]_vars

\* ------------------------------------------------------------- SpecRefresh
\* One trace index fed as the protocol feeds it (one well-formed file
\* metadata message, then line messages), with the gestures that move the
\* cursor over every event, the refresh of all open files and edits of an
\* open file in any order.
FirstFilesDataMsg(fdm) ==
    /\ dataIndex # << >>
    /\ dataIndex[1].Afds = << >>
    /\ HandleFilesDataMsg(fdm)

InitRefresh == InitWith(TRUE)

\* File and debug indexes of the line messages fed while refreshes and
\* edits interleave: every one some table of WellFormedFilesDataMsgs
\* accepts, so each table still rejects some of them.
RefreshFileIndexes == 0 .. 1
RefreshDebugIndexes == 0 .. 2

NextRefresh ==
    \/ \E fdm \in WellFormedFilesDataMsgs : FirstFilesDataMsg(fdm)
    \/ \E f \in RefreshFileIndexes, d \in RefreshDebugIndexes : HandleLineMsg(f, d)
    \/ SelectFirst
    \/ SelectNext
    \/ UpdateUIShowLine
    \/ UpdateUI
    \/ \E o \in InfoOrders : RunClosure(o)
    \/ \E c \in Contents : EditFile("a", c)

SpecRefresh == InitRefresh /\ [][NextRefresh]_vars

\* ----------------------------------------------------------------- SpecLine
\* One trace index with well-formed file metadata and line messages, the
\* First, Next and Clear gestures, the per-line gestures on every file and
\* line, and the closures the gestures queue.
NextLine ==
    \/ \E fdm \in WellFormedFilesDataMsgs : FirstFilesDataMsg(fdm)
    \/ \E f \in FileIndexes, d \in DebugIndexes : HandleLineMsg(f, d)
    \/ SelectFirst
    \/ SelectNext
    \/ SelectClear
    \/ \E n \in InfoNames, i \in AnnIndexes, t \in LineGestures : SelectCurrent(n, i, t)
    \/ UpdateUIShowLine
    \/ \E o \in InfoOrders : RunClosure(o)

SpecLine == InitIndex /\ [][NextLine]_vars

\* ---------------------------------------------------------------- SpecPrint
\* One trace index with well-formed file metadata, line messages, the Clear
\* gesture, the per-line Current, Print and PrintAll gestures on every file
\* and line, and the three refresh closures: the one a gesture queues, the
\* one the run asks for and the one the editor asks for one file.
\* A line message while the index holds fewer than MaxEvents events.
NextLineMsg(f, d) ==
    /\ Len(assigned) < MaxEvents
    /\ HandleLineMsg(f, d)

NextPrint ==
    \/ \E fdm \in WellFormedFilesDataMsgs : FirstFilesDataMsg(fdm)
    \/ \E f \in FileIndexes, d \in DebugIndexes : NextLineMsg(f, d)
    \/ SelectClear
    \/ \E n \in InfoNames, i \in AnnIndexes : SelectCurrent(n, i, "Current")
    \/ \E n \in InfoNames, i \in AnnIndexes, t \in PrintGestures : PrintIndex(n, i, t)
    \/ UpdateUIShowLine
    \/ UpdateUI
    \/ \E n \in InfoNames : UpdateUIERowInfo(n)
    \/ \E o \in InfoOrders : RunClosure(o)

SpecPrint == InitIndex /\ [][NextPrint]_vars

\* ----------------------------------------------------------------- SpecRun
\* The GoDebugInstance from NewGoDebugInstance on: Start and cancel on the
\* UI goroutine, the closure of each run on its own goroutine, and the UI
\* goroutine running the closures handed to it.  erow.Exec.Start runs the
\* closure with a context that nothing modelled here cancels.
MaxMsgs == 2

\* The runs holding gdi.ready.
PastGate == {"install", "setCancel", "updateUI", "loop", "requestStart", "cmdWait"}
InGate == {r \in Runs : runs[r].pc \in PastGate}

ResetOutputs ==
    /\ uiCalls' = NoCalls /\ shown' = NotShown /\ ret' = NoRet /\ lastOp' = NoOp

\* erow.Exec.Start(func...): the closure of run `launch` starts running.
ExecStart(rs, launch) ==
    IF launch = 0 THEN rs ELSE [rs EXCEPT ![launch].pc = "waitReady"]

\* CancelAndClear up to dataUnlock.  Without an index dataLock fails and
\* it returns at once; Start (launch # 0) then goes on to erow.Exec.Start.
CancelAndClear(launch) ==
    /\ ~panicked /\ uiPc = UIIdle
    /\ Section(UI, "W")
    /\ IF dataIndex = << >>
       THEN /\ runs' = ExecStart(runs, launch)
            /\ cancelReturned' = cancelReturned \cup InGate
            /\ uiCalls' = NoCalls
            /\ UNCHANGED << dataIndex, uiPc, indexRun, displayRun >>
       ELSE /\ dataIndex' = << >>
            /\ uiCalls' = clearInfosUI(NoCalls)
            /\ displayRun' = 0
            /\ indexRun' = 0
            /\ uiPc' = [at |-> "cancel", launch |-> launch, inGate |-> InGate]
            /\ UNCHANGED << runs, cancelReturned >>
    /\ lastOp' = [NoOp EXCEPT !.op = "CancelAndClear"]
    /\ shown' = NotShown /\ ret' = NoRet
    /\ UNCHANGED << live, uiQueue, panicked, assigned, ready,
                    gdiCancel, applied >>

\* The end of CancelAndClear: gdi.cancel(), read without synchronization;
\* then, inside Start, erow.Exec.Start.
CancelAndClearCancel ==
    /\ ~panicked
    /\ uiPc.at = "cancel"
    /\ Outside(UI)
    /\ runs' = ExecStart(IF gdiCancel = 0 THEN runs
                         ELSE [runs EXCEPT ![gdiCancel].ctxDone = TRUE],
                         uiPc.launch)
    /\ cancelReturned' = cancelReturned \cup uiPc.inGate
    /\ uiPc' = UIIdle
    /\ ResetOutputs
    /\ UNCHANGED << dataIndex, live, uiQueue, panicked, assigned,
                    ready, gdiCancel, indexRun, displayRun, applied >>

\* Start on a directory row: the runs are started in the order 1, 2, ...
Start(r) ==
    /\ runs[r].pc = "new"
    /\ IF r = 1 THEN TRUE ELSE runs[r - 1].pc # "new"
    /\ CancelAndClear(r)

\* The user stops the session: CancelAndClear alone.
Cancel == CancelAndClear(0)

\* The gate is never held.
readyFreeAlways(holder) == TRUE

\* gdi.ready.Lock() goes through when no run holds the mutex.
readyFree(holder) == holder = 0

\* "wait for previous run to finish": gdi.ready.Lock().  The request to
\* empty the row's text that follows touches nothing modelled here.
RunEnter(r) ==
    /\ ~panicked
    /\ runs[r].pc = "waitReady"
    /\ Outside(Go(r))
    /\ readyFree(ready)
    /\ ready' = r
    /\ runs' = [runs EXCEPT ![r].pc = "install"]
    /\ ResetOutputs
    /\ UNCHANGED << dataIndex, live, uiQueue, panicked, assigned,
                    gdiCancel, uiPc, indexRun, displayRun, applied, cancelReturned >>

\* "start data index", under data.mu.Lock.
Install(r) ==
    /\ ~panicked
    /\ runs[r].pc = "install"
    /\ Section(Go(r), "W")
    /\ dataIndex' = << NewGDDataIndex(TRUE) >>
    /\ indexRun' = r
    /\ runs' = [runs EXCEPT ![r].pc = "setCancel"]
    /\ lastOp' = [NoOp EXCEPT !.op = "Start"]
    /\ uiCalls' = NoCalls /\ shown' = NotShown /\ ret' = NoRet
    /\ UNCHANGED << live, uiQueue, panicked, assigned, ready,
                    gdiCancel, uiPc, displayRun, applied, cancelReturned >>

\* ctx2, cancel := context.WithCancel(ctx); gdi.cancel = cancel
SetCancel(r) ==
    /\ ~panicked
    /\ runs[r].pc = "setCancel"
    /\ Outside(Go(r))
    /\ gdiCancel' = r
    /\ runs' = [runs EXCEPT ![r].pc = "updateUI"]
    /\ ResetOutputs
    /\ UNCHANGED << dataIndex, live, uiQueue, panicked, assigned,
                    ready, uiPc, indexRun, displayRun, applied, cancelReturned >>

\* gdi.updateUI() in the closure: the refresh is handed to the UI goroutine.
RunUpdateUI(r) ==
    /\ ~panicked
    /\ runs[r].pc = "updateUI"
    /\ Outside(Go(r))
    /\ Len(uiQueue) < MaxQueue
    /\ uiQueue' = Append(uiQueue, Closure("updateUI", ""))
    /\ runs' = [runs EXCEPT ![r].pc = "loop"]
    /\ ResetOutputs
    /\ UNCHANGED << dataIndex, live, panicked, assigned, ready,
                    gdiCancel, uiPc, indexRun, displayRun, applied, cancelReturned >>

\* The messages cmd.Client.Messages can deliver, by id: a decode or
\* transport error, the strings, file metadata (well formed, and with a
\* file index past the table), a line message (accepted, and with a debug
\* index past the file's lines), a batch whose second element has a debug
\* index past the file's lines, and a value of no handled type.
ClientMsgIds ==
    {"error", "connected", "string", "files", "badfiles", "line", "badline",
     "lines", "other"}
ClientMsg(id) ==
    CASE id = "error"     -> [kind |-> "error", data |-> "EOF"]
      [] id = "connected" -> [kind |-> "string", data |-> "connected"]
      [] id = "string"    -> [kind |-> "string", data |-> "hello"]
      [] id = "files"     -> [kind |-> "FilesDataMsg", data |-> << Afd(0, "a", 2) >>]
      [] id = "badfiles"  -> [kind |-> "FilesDataMsg", data |-> << Afd(1, "a", 1) >>]
      [] id = "line"      -> [kind |-> "LineMsg", data |-> LineMsg(0, 0, ItemAt(1))]
      [] id = "badline"   -> [kind |-> "LineMsg", data |-> LineMsg(0, 2, ItemAt(1))]
      [] id = "lines"     -> [kind |-> "LineMsgs",
                              data |-> << LineMsg(0, 0, ItemAt(1)),
                                          LineMsg(0, 2, ItemAt(2)),
                                          LineMsg(0, 1, ItemAt(1)) >>]
      [] OTHER            -> [kind |-> "other", data |-> 0]

\* The messages of a run of SpecRun: the file metadata first, then line
\* messages.
RunFilesDataMsg == ClientMsg("files").data
RunMsg(k) == IF k = 0 THEN "files" ELSE "line"

\* The loop of handleLineMsgs over the batch: it returns at the first error.
RECURSIVE handleLineMsgs(_, _)
handleLineMsgs(di, us) ==
    IF us = << >>
    THEN [di |-> di, err |-> "", panic |-> FALSE]
    ELSE LET h == handleLineMsg(di, Head(us))
         IN  IF h.panic \/ h.err # ""
             THEN h
             ELSE handleLineMsgs(h.di, Tail(us))

\* handleMsg goes on to cmd.RequestStart when handleFilesDataMsg returned
\* no error.
requestsStartAlways(h) == TRUE
requestsStart(h) == h.err = "" /\ ~h.panic

\* What a data-lock wrapper returns when the operation on the index
\* returned h: [index, err, panic].
unlocked(h) == [index |-> << h.di >>, err |-> h.err, panic |-> h.panic]

\* gdi.handleFilesDataMsg, gdi.handleLineMsg, gdi.handleLineMsgs: dataLock,
\* which fails with "dataindex is nil" when there is no index, the
\* operation on the index, dataUnlock.
underDataLock(index, m) ==
    IF index = << >>
    THEN [index |-> index, err |-> "dataindex is nil", panic |-> FALSE]
    ELSE unlocked(CASE m.kind = "FilesDataMsg" -> handleFilesDataMsg(index[1], m.data)
                    [] m.kind = "LineMsg"      -> handleLineMsg(index[1], m.data)
                    [] OTHER                   -> handleLineMsgs(index[1], m.data))

\* cmd.RequestFileSetPositions() / cmd.RequestStart(): the error handleMsg
\* wraps when the call fails.
requestErr(call, fails) ==
    IF ~fails THEN ""
    ELSE IF call = "RequestStart" THEN "request start"
    ELSE "request file set positions"

\* What handleMsg returns: [index, err, panic, calls], calls being the
\* control calls made on cmd, in order.
returned(index, err, panic, calls) ==
    [index |-> index, err |-> err, panic |-> panic, calls |-> calls]

\* handleMsg, case *debug.FilesDataMsg, once gdi.handleFilesDataMsg has
\* returned h: its error, or cmd.RequestStart and the error of that.
filesDataMsgCase(h, fails) ==
    IF ~h.panic /\ requestsStart(h)
    THEN returned(h.index, requestErr("RequestStart", fails), FALSE, << "RequestStart" >>)
    ELSE returned(h.index, h.err, h.panic, << >>)

\* handleMsg, case *debug.LineMsg and case []*debug.LineMsg.
lineMsgCase(h) == returned(h.index, h.err, h.panic, << >>)

\* handleMsg; fails: the control call, when one is made, returns an error.
handleMsg(index, m, fails) ==
    CASE m.kind = "error" -> returned(index, m.data, FALSE, << >>)
      [] m.kind = "string" ->
            IF m.data = "connected"
            THEN returned(index, requestErr("RequestFileSetPositions", fails), FALSE,
                          << "RequestFileSetPositions" >>)
            ELSE returned(index, "unhandled string", FALSE, << >>)
      [] m.kind = "FilesDataMsg" -> filesDataMsgCase(underDataLock(index, m), fails)
      [] m.kind \in {"LineMsg", "LineMsgs"} -> lineMsgCase(underDataLock(index, m))
      [] OTHER -> returned(index, "unexpected msg", FALSE, << >>)

\* The errors after which a run cannot go on: an error message, and file
\* metadata the index rejected.
isFatal(index, m, h) ==
    \/ m.kind = "error"
    \/ m.kind = "FilesDataMsg" /\ index # << >> /\ h.err # "" /\ h.calls = << >>

\* if updatec == nil { t := time.NewTimer(...); updatec = t.C }
mustArmAlways(updatec) == TRUE
mustArm(updatec) == ~updatec

\* The loop's local updateUI: with the timer armed it disarms it and calls
\* gdi.updateUI; otherwise it does nothing.
loopUpdateUINever(updatec) == [updatec |-> FALSE, refresh |-> FALSE]
loopUpdateUI(updatec) == [updatec |-> FALSE, refresh |-> updatec]

\* The file table of the message is in the index, every record in place.
tableInstalled(index, m) ==
    /\ index # << >>
    /\ index[1].Afds = m.data
    /\ Len(index[1].Files) = Len(index[1].Afds)
    /\ \A i \in 1 .. Len(index[1].Files) : index[1].Files[i] # << >>

\* What a step of the loop leaves in lastOp.  index, lastBefore and
\* fatalBefore are those of the moment the message was received; tableErr
\* and installed tell how gdi.handleFilesDataMsg ended for file metadata.
LoopRec(r, step, id, h, armed, refreshed) ==
    [NoOp EXCEPT
       !.op = step,
       !.err = h.err,
       !.lastBefore = IF dataIndex = << >> THEN -1 ELSE dataIndex[1].lastArrivalIndex,
       !.loop = << [run |-> r, msg |-> id, calls |-> h.calls,
                    index |-> dataIndex # << >>,
                    armedBefore |-> runs[r].updatec, armed |-> armed,
                    refreshed |-> refreshed,
                    fatalBefore |-> runs[r].fatal,
                    tableErr |-> "", installed |-> FALSE] >>]

\* No message is half handled.  Otherwise << what the loop did so far >>.
NoPending == << >>

\* How gdi.handleFilesDataMsg ended for message m: [index, err, panic]
\* (no error and the index as it is for any other message).
tableStep(index, m) ==
    IF m.kind = "FilesDataMsg" THEN underDataLock(index, m)
    ELSE [index |-> index, err |-> "", panic |-> FALSE]

\* The loop's step for message m of id `id` when handleMsg returns h and
\* gdi.handleFilesDataMsg ended as t.
Received(r, id, m, h, t) ==
    LET starts == h.calls = << "RequestStart" >>
        arm == ~h.panic /\ ~starts /\ mustArm(runs[r].updatec)
        r0 == LoopRec(r, IF starts THEN "handleFilesDataMsg" ELSE "handleMsg", id,
                      IF starts THEN returned(h.index, t.err, FALSE, << >>) ELSE h,
                      arm, FALSE)
        rec == [r0 EXCEPT !.loop[1].tableErr = t.err,
                          !.loop[1].installed = /\ m.kind = "FilesDataMsg"
                                                /\ tableInstalled(t.index, m)]
    IN  /\ dataIndex' = h.index
        /\ panicked' = h.panic
        /\ applied' = IF ~h.panic /\ (h.err = "" \/ starts)
                          /\ m.kind \in {"FilesDataMsg", "LineMsg", "LineMsgs"}
                       THEN applied \cup {[msg |-> r, index |-> indexRun,
                                           late |-> r \in cancelReturned]}
                       ELSE applied
        /\ runs' = [runs EXCEPT ![r].pc = IF starts THEN "requestStart" ELSE "loop",
                                ![r].pending = IF starts THEN << rec >> ELSE NoPending,
                                ![r].handled = @ + 1,
                                ![r].updatec = @ \/ arm,
                                ![r].timers = @ + (IF arm THEN 1 ELSE 0),
                                ![r].dirty = @ \/ ~h.panic,
                                ![r].fatal = @ \/ isFatal(dataIndex, m, h)]
        /\ lastOp' = rec

\* The kinds of message that handleMsg hands to a function that takes
\* dataLock.
UnderDataLock == {"FilesDataMsg", "LineMsg", "LineMsgs"}

\* case msg, ok := <-cmd.Client.Messages with ok: handleMsg, the error if
\* any is printed, then the timer is armed unless it already is.  For file
\* metadata that the index accepted this is handleMsg up to the return of
\* gdi.handleFilesDataMsg: the data lock is released, cmd.RequestStart is
\* still to be called.  A panic ends the process inside handleMsg.
LoopRecv(r, id, fails) ==
    /\ ~panicked
    /\ runs[r].pc = "loop"
    /\ IF ClientMsg(id).kind \in UnderDataLock
       THEN Section(Go(r), "W")
       ELSE Outside(Go(r))
    /\ Received(r, id, ClientMsg(id), handleMsg(dataIndex, ClientMsg(id), fails),
                tableStep(dataIndex, ClientMsg(id)))
    /\ uiCalls' = NoCalls /\ shown' = NotShown /\ ret' = NoRet
    /\ UNCHANGED << live, uiQueue, assigned, ready, gdiCancel, uiPc,
                    indexRun, displayRun, cancelReturned >>

\* The rest of handleMsg for file metadata, with the data lock released:
\* cmd.RequestStart(), its error if any is returned and printed; then the
\* loop arms the timer unless it already is.
RequestStart(r, fails) ==
    /\ ~panicked
    /\ runs[r].pc = "requestStart"
    /\ Outside(Go(r))
    /\ LET p == runs[r].pending[1]
           arm == mustArm(runs[r].updatec)
       IN  /\ runs' = [runs EXCEPT ![r].pc = "loop",
                                   ![r].pending = NoPending,
                                   ![r].updatec = @ \/ arm,
                                   ![r].timers = @ + (IF arm THEN 1 ELSE 0)]
           /\ lastOp' = [p EXCEPT
                           !.op = "handleMsg",
                           !.err = requestErr("RequestStart", fails),
                           !.loop = << [p.loop[1] EXCEPT
                                          !.calls = << "RequestStart" >>,
                                          !.armedBefore = runs[r].updatec,
                                          !.armed = arm] >>]
    /\ uiCalls' = NoCalls /\ shown' = NotShown /\ ret' = NoRet
    /\ UNCHANGED << dataIndex, live, uiQueue, panicked, assigned,
                    ready, gdiCancel, uiPc, indexRun, displayRun, applied,
                    cancelReturned >>

\* The loop of a run of SpecRun receives that run's next message.
LoopMsg(r) ==
    /\ runs[r].handled < MaxMsgs
    /\ \E fails \in BOOLEAN : LoopRecv(r, RunMsg(runs[r].handled), fails)

NoMsg == [index |-> << >>, err |-> "", panic |-> FALSE, calls |-> << >>]

\* case <-updatec: the local updateUI disarms the timer and refreshes.
LoopTimer(r) ==
    /\ ~panicked
    /\ runs[r].pc = "loop"
    /\ Outside(Go(r))
    /\ runs[r].updatec
    /\ LET u == loopUpdateUI(runs[r].updatec)
       IN  /\ u.refresh => Len(uiQueue) < MaxQueue
           /\ uiQueue' = IF u.refresh
                         THEN Append(uiQueue, Closure("updateUI", ""))
                         ELSE uiQueue
           /\ runs' = [runs EXCEPT ![r].updatec = u.updatec,
                                   ![r].timers = @ - 1,
                                   ![r].dirty = @ /\ ~u.refresh]
           /\ lastOp' = LoopRec(r, "timer", "", NoMsg, FALSE, u.refresh)
    /\ uiCalls' = NoCalls /\ shown' = NotShown /\ ret' = NoRet
    /\ UNCHANGED << dataIndex, live, panicked, assigned, ready,
                    gdiCancel, uiPc, indexRun, displayRun, applied, cancelReturned >>

\* The loop returns: the local updateUI refreshes when the timer is armed.
\* start2 goes on to cmd.Wait(); the run still holds gdi.ready and its
\* context is as it was.
LoopReturn(r) ==
    /\ ~panicked
    /\ runs[r].pc = "loop"
    /\ Outside(Go(r))
    /\ LET u == loopUpdateUI(runs[r].updatec)
       IN  /\ u.refresh => Len(uiQueue) < MaxQueue
           /\ uiQueue' = IF u.refresh
                         THEN Append(uiQueue, Closure("updateUI", ""))
                         ELSE uiQueue
           /\ runs' = [runs EXCEPT ![r].pc = "cmdWait",
                                   ![r].updatec = u.updatec,
                                   ![r].timers = 0,
                                   ![r].dirty = @ /\ ~u.refresh]
           /\ lastOp' = LoopRec(r, "return", "", NoMsg, FALSE, u.refresh)
    /\ uiCalls' = NoCalls /\ shown' = NotShown /\ ret' = NoRet
    /\ UNCHANGED << dataIndex, live, panicked, assigned, ready,
                    gdiCancel, uiPc, indexRun, displayRun, applied, cancelReturned >>

\* case <-ctx.Done()
LoopCtxDone(r) ==
    /\ runs[r].ctxDone
    /\ LoopReturn(r)

\* case msg, ok := <-cmd.Client.Messages with !ok: the program has ended.
LoopClosed(r) ==
    /\ ~runs[r].ctxDone
    /\ LoopReturn(r)

\* cmd.Wait() returns, start2 and the closure return: the deferred cancel()
\* and then the deferred gdi.ready.Unlock() run.
CmdWait(r) ==
    /\ ~panicked
    /\ runs[r].pc = "cmdWait"
    /\ Outside(Go(r))
    /\ runs' = [runs EXCEPT ![r].pc = "exited", ![r].ctxDone = TRUE]
    /\ ready' = 0
    /\ ResetOutputs
    /\ UNCHANGED << dataIndex, live, uiQueue, panicked, assigned,
                    gdiCancel, uiPc, indexRun, displayRun, applied, cancelReturned >>

\* The UI goroutine runs a queued refresh while there is no index:
\* dataRLock fails and the closure returns.
RunClosureNoIndex ==
    /\ ~panicked /\ uiPc = UIIdle
    /\ Section(UI, "R")
    /\ dataIndex = << >>
    /\ uiQueue # << >>
    /\ uiQueue' = Tail(uiQueue)
    /\ ResetOutputs
    /\ UNCHANGED << dataIndex, live, panicked, assigned, ctlVars,
                    displayRun >>

\* The state after NewGoDebugInstance; followed: the goroutines followed
\* through their critical sections, each outside them.
InitInstance(followed) ==
    /\ dataIndex = << >>
    /\ live = [n \in InfoNames |-> Content0]
    /\ uiCalls = NoCalls
    /\ uiQueue = << >>
    /\ panicked = FALSE
    /\ shown = NotShown
    /\ ret = NoRet
    /\ lastOp = NoOp
    /\ assigned = << >>
    /\ InitCtl
    /\ crit = followed

InitRun == InitInstance(NotFollowed)

NextRun ==
    \/ \E r \in Runs : Start(r)
    \/ Cancel
    \/ CancelAndClearCancel
    \/ \E r \in Runs : RunEnter(r)
    \/ \E r \in Runs : Install(r)
    \/ \E r \in Runs : SetCancel(r)
    \/ \E r \in Runs : RunUpdateUI(r)
    \/ \E r \in Runs : LoopMsg(r)
    \/ \E r \in Runs, fails \in BOOLEAN : RequestStart(r, fails)
    \/ \E r \in Runs : LoopTimer(r)
    \/ \E r \in Runs : LoopCtxDone(r)
    \/ \E r \in Runs : LoopClosed(r)
    \/ \E r \in Runs : CmdWait(r)
    \/ RunClosure(<< "a", "B" >>)
    \/ RunClosureNoIndex

SpecRun == InitRun /\ [][NextRun]_vars

\* ------------------------------------------------- the ingestion loop
\* One run whose client delivers any of the messages, in any order.
\* Messages received per run.
MaxRecv == 3

LoopMessages(r) ==
    /\ runs[r].handled < MaxRecv
    /\ \E id \in ClientMsgIds, fails \in BOOLEAN : LoopRecv(r, id, fails)

NextLoop ==
    \/ Start(1)
    \/ Cancel
    \/ CancelAndClearCancel
    \/ RunEnter(1)
    \/ Install(1)
    \/ SetCancel(1)
    \/ RunUpdateUI(1)
    \/ LoopMessages(1)
    \/ \E fails \in BOOLEAN : RequestStart(1, fails)
    \/ LoopTimer(1)
    \/ LoopCtxDone(1)
    \/ LoopClosed(1)
    \/ CmdWait(1)
    \/ RunClosure(<< "a", "B" >>)
    \/ RunClosureNoIndex

SpecLoop == InitRun /\ [][NextLoop]_vars

\* ----------------------------------------------------------------- SpecLock
\* One run and the UI goroutine, each followed through its critical
\* sections: taking gdi.data.mu is a step of its own, and the other goroutine
\* runs between it and the rest of the section whenever the mutex lets it.
\* The run installs its index and receives file metadata and a line
\* message; the UI goroutine starts and cancels the run, handles the global
\* and the per-line gestures and runs the closures handed to it.
LockGoroutines == {UI, Go(1)}

InitLock == InitInstance([g \in LockGoroutines |-> ""])

\* Goroutine g is at a call of dataLock or of data.mu.Lock: the UI
\* goroutine at a gesture or at CancelAndClear, the goroutine of a run at
\* "start data index" or at a message that goes to the index.
atDataLock(g) ==
    IF g = UI
    THEN uiPc = UIIdle
    ELSE \E r \in Runs :
            /\ g = Go(r)
            /\ IF runs[r].pc = "loop"
               THEN runs[r].handled < MaxMsgs
               ELSE runs[r].pc = "install"

\* gdi.data.mu.Lock() by goroutine g, in dataLock or in Start's closure.
DataLock(g) ==
    /\ ~panicked
    /\ g \in DOMAIN crit
    /\ crit[g] = ""
    /\ atDataLock(g)
    /\ canLock(mu)
    /\ mu' = muLock(mu, g)
    /\ crit' = [crit EXCEPT ![g] = "W"]
    /\ UNCHANGED << dataIndex, live, uiCalls, uiQueue, panicked, shown, ret,
                    lastOp, assigned, ctlVars, displayRun >>

\* gdi.data.mu.RLock() in dataRLock: the UI goroutine starts on the closure
\* at the head of its queue.
DataRLock ==
    /\ ~panicked
    /\ UI \in DOMAIN crit
    /\ crit[UI] = ""
    /\ uiPc = UIIdle
    /\ uiQueue # << >>
    /\ canRLock(mu)
    /\ mu' = muRLock(mu, UI)
    /\ crit' = [crit EXCEPT ![UI] = "R"]
    /\ UNCHANGED << dataIndex, live, uiCalls, uiQueue, panicked, shown, ret,
                    lastOp, assigned, ctlVars, displayRun >>

\* SelectAnnotation / SelectERowAnnotation while there is no index: dataLock
\* fails and false is returned.
SelectNoIndex ==
    /\ ~panicked /\ uiPc = UIIdle
    /\ dataIndex = << >>
    /\ Section(UI, "W")
    /\ ResetOutputs
    /\ UNCHANGED << dataIndex, live, uiQueue, panicked, assigned, ctlVars,
                    displayRun >>

NextLock ==
    \/ Start(1)
    \/ Cancel
    \/ CancelAndClearCancel
    \/ RunEnter(1)
    \/ Install(1)
    \/ SetCancel(1)
    \/ RunUpdateUI(1)
    \/ LoopMsg(1)
    \/ \E fails \in BOOLEAN : RequestStart(1, fails)
    \/ LoopTimer(1)
    \/ LoopCtxDone(1)
    \/ LoopClosed(1)
    \/ CmdWait(1)
    \/ \E g \in LockGoroutines : DataLock(g)
    \/ DataRLock
    \/ SelectFirst
    \/ SelectLast
    \/ SelectPrev
    \/ SelectNext
    \/ SelectClear
    \/ \E n \in InfoNames, i \in AnnIndexes, t \in LineGestures : SelectCurrent(n, i, t)
    \/ SelectNoIndex
    \/ UpdateUIShowLine
    \/ \E n \in InfoNames : UpdateUIERowInfo(n)
    \/ RunClosure(<< "a", "B" >>)
    \/ RunClosureNoIndex

SpecLock == InitLock /\ [][NextLock]_vars

\* ------------------------------------------------ properties of SpecIndex
cursor == dataIndex[1].selected.arrivalIndex
last == dataIndex[1].lastArrivalIndex

\* C1 as stated: the arrival indices given to the accepted line messages of
\* one index are 0, 1, 2, ... in call order, with no gap and no repeat,
\* whatever gestures come between.
C1_AsStated ==
    \A k \in 1 .. Len(assigned) : assigned[k] = k - 1

\* C3: a successful handleLineMsg called with the cursor at the arrival
\* counter (the initial -1 = -1 included) leaves the cursor at the new
\* counter; called with the cursor elsewhere, it leaves the cursor alone.
C3_FollowLatest ==
    (lastOp.op = "handleLineMsg" /\ lastOp.changed) =>
        /\ last = lastOp.lastBefore + 1
        /\ IF lastOp.cursorBefore = lastOp.lastBefore
           THEN cursor = last
           ELSE cursor = lastOp.cursorBefore

\* The cursor followed a message that was not the first of the index.
C3_Witness ==
    /\ lastOp.op = "handleLineMsg" /\ lastOp.changed
    /\ lastOp.cursorBefore = lastOp.lastBefore
    /\ lastOp.lastBefore >= 1
    /\ cursor = last

\* C4: Next called at a cursor c with 0 <= c < last and the Prev called
\* after it, with nothing but refreshes between, leave the cursor at c; Next called at c = last and Prev called
\* at c = 0 leave the cursor where it was and report no change.
C4_NextPrev ==
    /\ (lastOp.op = "Prev" /\ lastOp.nextFrom # NoNext)
         => ((0 <= lastOp.nextFrom[1] /\ lastOp.nextFrom[1] < lastOp.lastBefore)
              => cursor = lastOp.nextFrom[1])
    /\ (lastOp.op = "Next" /\ lastOp.cursorBefore = lastOp.lastBefore)
         => (cursor = lastOp.cursorBefore /\ ~lastOp.changed)
    /\ (lastOp.op = "Prev" /\ lastOp.cursorBefore = 0)
         => (cursor = 0 /\ ~lastOp.changed)

\* Prev has run after a Next that was called below the counter.
C4_Witness ==
    /\ lastOp.op = "Prev" /\ lastOp.changed
    /\ lastOp.nextFrom # NoNext
    /\ 1 <= lastOp.nextFrom[1] /\ lastOp.nextFrom[1] < lastOp.lastBefore
    /\ cursor = lastOp.nextFrom[1]

\* ------------------------------------------------- properties of SpecLine
\* The line slot the last per-line gesture was bound to, and the local
\* position its file record shows for that line.
gestureFile == dataIndex[1].Files[FilesIndex(dataIndex[1], lastOp.name) + 1][1]
gestureLine == gestureFile.LinesMsgs[lastOp.annIndex + 1]
gestureShown == gestureFile.AnnEntriesLMIndex[lastOp.annIndex + 1]

\* C5: CurrentNext and CurrentPrev never go past an end of their line (they
\* neither fail nor select there, and report no change leaving the cursor
\* alone); whenever Current, CurrentPrev or CurrentNext reports a change,
\* the cursor is the arrival index of the event of that same line at the
\* shown local position (the first when none is shown), one position
\* before it for CurrentPrev, one position after it for CurrentNext.
C5_WithinLine ==
    lastOp.op \in LineGestures =>
        /\ lastOp.op # "Current" => ~panicked
        /\ IF lastOp.changed
           THEN LET k == shownOrFirst(gestureShown)
                         + (IF lastOp.op = "CurrentPrev" THEN -1
                            ELSE IF lastOp.op = "CurrentNext" THEN 1 ELSE 0)
                IN  /\ 0 <= k /\ k < Len(gestureLine)
                    /\ gestureLine[k + 1].arrivalIndex = cursor
           ELSE cursor = lastOp.cursorBefore

\* CurrentNext has moved the cursor to the third event of a line whose
\* second event was shown.
C5_Witness ==
    /\ lastOp.op = "CurrentNext" /\ lastOp.changed
    /\ gestureShown >= 1
    /\ cursor = gestureLine[gestureShown + 2].arrivalIndex

\* ---------------------------------------------- properties of SpecRefresh
\* The file record of an open file of the table.
fileOf(name) == dataIndex[1].Files[FilesIndex(dataIndex[1], name) + 1][1]

\* The largest local position of the slot whose event arrived at or before
\* c, -1 when there is none.
lastAtOrBefore(slot, c) ==
    LET S == {i \in 0 .. Len(slot) - 1 : slot[i + 1].arrivalIndex <= c}
    IN  IF S = {} THEN -1 ELSE CHOOSE i \in S : \A j \in S : j <= i

\* The lines of a file whose chosen event arrived exactly at c.
matches(file, c) ==
    {l \in 1 .. Len(file.LinesMsgs) :
        LET k == lastAtOrBefore(file.LinesMsgs[l], c)
        IN  k >= 0 /\ file.LinesMsgs[l][k + 1].arrivalIndex = c}

\* C2: after findSelectedAndUpdateAnnEntries has run for a file with the
\* cursor at c, the local position recorded for every line is the largest
\* i whose event has arrival index <= c, and -1 when the line has no such
\* event; it reports found exactly when the chosen event of some line has
\* arrival index c, and then returns that line and its local position.
C2_Resolve ==
    \A n \in InfoNames : (ret[n].ran /\ ~panicked) =>
        LET file == fileOf(n)
        IN  /\ \A l \in 1 .. Len(file.LinesMsgs) :
                   file.AnnEntriesLMIndex[l] = lastAtOrBefore(file.LinesMsgs[l], cursor)
            /\ ret[n].found <=> matches(file, cursor) # {}
            /\ ret[n].found =>
                   /\ ret[n].selLine + 1 \in matches(file, cursor)
                   /\ ret[n].selLineStep
                        = lastAtOrBefore(file.LinesMsgs[ret[n].selLine + 1], cursor)

\* Events arrived at lines 0, 1, 0 of a three-line file and the cursor is
\* at 2: line 0 shows its second event, line 1 its only one, line 2 none.
C2_Witness ==
    /\ ret["a"].ran /\ ret["a"].found
    /\ cursor = 2
    /\ fileOf("a").AnnEntriesLMIndex = << 1, 0, -1 >>
    /\ ret["a"].selLine = 0 /\ ret["a"].selLineStep = 1

\* C6: findSelectedAndUpdateAnnEntries called again for the same file, in
\* the state its first call left and with the same cursor, returns what
\* the first call returned and leaves the same annotation per line and
\* the same local position per line.
C6_Idempotent ==
    \A n \in InfoNames : (ret[n].ran /\ ~panicked) =>
        LET file == fileOf(n)
            r    == findSelectedAndUpdateAnnEntries(file, cursor)
        IN  /\ r.selLine = ret[n].selLine
            /\ r.selLineStep = ret[n].selLineStep
            /\ r.found = ret[n].found
            /\ annEntries(r.file) = annEntries(file)
            /\ r.file.AnnEntriesLMIndex = file.AnnEntriesLMIndex

\* The first call ran for a file with a line showing its second event and
\* a line whose only event arrived after the cursor.
C6_Witness ==
    /\ ret["a"].ran /\ ret["a"].found
    /\ \E l \in 1 .. Len(fileOf("a").LinesMsgs) :
          fileOf("a").AnnEntriesLMIndex[l] = -1 /\ fileOf("a").LinesMsgs[l] # << >>
    /\ \E l \in 1 .. Len(fileOf("a").LinesMsgs) :
          fileOf("a").AnnEntriesLMIndex[l] = 1

\* C9: a refresh of an open file of the table whose content differs from
\* the recorded size and hash sets the edited state and hands every view
\* of the file "annotations off" with an empty list; when the content
\* matches, it clears the edited state and hands every view the resolved
\* annotation list.
C9_Edited ==
    \A n \in InfoNames :
        (uiCalls[n].called /\ ~panicked /\ FilesIndexOk(dataIndex[1], n)) =>
            LET afd == dataIndex[1].Afds[FilesIndex(dataIndex[1], n) + 1]
            IN  /\ uiCalls[n].rowState
                /\ Len(uiCalls[n].views) = ERows(n)
                /\ IF live[n].size # afd.FileSize \/ live[n].hash # afd.FileHash
                   THEN /\ uiCalls[n].editedState
                        /\ \A v \in 1 .. ERows(n) :
                              /\ ~uiCalls[n].views[v].on
                              /\ uiCalls[n].views[v].entries = << >>
                   ELSE /\ ~uiCalls[n].editedState
                        /\ \A v \in 1 .. ERows(n) :
                              /\ uiCalls[n].views[v].on
                              /\ uiCalls[n].views[v].entries = annEntries(fileOf(n))
                              /\ uiCalls[n].views[v].selIndex = ret[n].selLine

\* The refresh ran for a file edited since the run recorded it, while the
\* index holds events of that file and the cursor selects one of them.
C9_Witness ==
    /\ uiCalls["a"].called /\ uiCalls["a"].editedState
    /\ live["a"] = Content1
    /\ ret["a"].found
    /\ \A v \in 1 .. ERows("a") : ~uiCalls["a"].views[v].on

\* -------------------------------------------------- properties of SpecRun
\* C7: at most one run is past gdi.ready at a time; while a run past its
\* "start data index" step is in the gate, the index, when there is one,
\* is the one that run created; and every message a run's loop applied
\* went to the index that same run created, never to a later run's.
C7_OneRun ==
    /\ Cardinality(InGate) <= 1
    /\ \A r \in InGate :
          (runs[r].pc # "install" /\ dataIndex # << >>) => indexRun = r
    /\ \A a \in applied : a.msg = a.index

\* The second run is ingesting into its own index after the first run
\* ingested into its own and left the gate.
C7_Witness ==
    /\ runs[1].pc = "exited"
    /\ runs[2].pc = "loop"
    /\ indexRun = 2
    /\ [msg |-> 1, index |-> 1, late |-> FALSE] \in applied
    /\ [msg |-> 2, index |-> 2, late |-> FALSE] \in applied

\* C8 as stated: once Start has been called for a new run, no line message
\* of that run is in the index while the views still hold annotation
\* lists computed from an earlier run's events.
C8_AsStated ==
    (dataIndex # << >> /\ dataIndex[1].lastArrivalIndex >= 0) =>
        displayRun \in {0, indexRun}

\* C10 as stated: once a CancelAndClear called while a run was past the
\* gate has returned, that run's context is cancelled, and no message of
\* that run is applied to an index any more.
C10_AsStated ==
    /\ \A r \in cancelReturned : runs[r].ctxDone
    /\ \A a \in applied : ~a.late

\* ------------------------------------- further properties of SpecIndex
\* C11 as stated: a handleLineMsg that does not append its message (its
\* file index or line index is no valid position) returns an error,
\* without failing, and leaves the arrival counter and the cursor alone.
C11_AsStated ==
    (lastOp.op = "handleLineMsg" /\ ~lastOp.changed) =>
        /\ ~panicked
        /\ lastOp.err # ""
        /\ last = lastOp.lastBefore
        /\ cursor = lastOp.cursorBefore

\* C12 as stated: the cursor lies in [-1, lastArrivalIndex].
C12_AsStated ==
    -1 <= cursor /\ cursor <= last

\* C13 as stated: after handleFilesDataMsg has replaced the file table,
\* the arrival counter and the cursor are -1.
C13_AsStated ==
    (lastOp.op = "handleFilesDataMsg" /\ lastOp.err = "" /\ ~panicked) =>
        (last = -1 /\ cursor = -1)

\* The descriptors of the table whose file index is no position of it.
badDescriptors(afds) ==
    {i \in 1 .. Len(afds) : afds[i].FileIndex < 0 \/ afds[i].FileIndex >= Len(afds)}

\* C14 as stated: handleFilesDataMsg returns an error, without failing,
\* exactly when some descriptor's file index is not in 0 .. n-1; when it
\* succeeds, every position of the table holds a file record with the
\* declared number of line slots, all empty.
C14_AsStated ==
    lastOp.op = "handleFilesDataMsg" =>
        LET di == dataIndex[1]
        IN  /\ ~panicked
            /\ lastOp.err # "" <=> badDescriptors(di.Afds) # {}
            /\ lastOp.err = "" =>
                  /\ Len(di.Files) = Len(di.Afds)
                  /\ \A i \in 1 .. Len(di.Files) : di.Files[i] # << >>
                  /\ \A i \in 1 .. Len(di.Afds) :
                        LET f == di.Files[di.Afds[i].FileIndex + 1]
                        IN  f # << >> =>
                              f[1].LinesMsgs = [l \in 1 .. Len(f[1].LinesMsgs) |-> << >>]

\* ------------------------------------------------- properties of SpecLoop
\* What the loop did in the step that led here.
loopOp == lastOp.loop[1]

\* C15 as stated: once the loop has received an error message, or file
\* metadata that the index rejected with an error, it returns and handles no
\* further message of that run.
C15_AsStated ==
    lastOp.op = "handleMsg" => ~loopOp.fatalBefore

\* The elements of a batch whose indices are within the index's tables.
validLineMsg(di, u) ==
    /\ 0 <= u.FileIndex /\ u.FileIndex < Len(di.Files)
    /\ di.Files[u.FileIndex + 1] # << >>
    /\ 0 <= u.DebugIndex
    /\ u.DebugIndex < Len(di.Files[u.FileIndex + 1][1].LinesMsgs)
validLineMsgs(di, us) == {i \in 1 .. Len(us) : validLineMsg(di, us[i])}

\* C16 as stated: of a batch of line messages only the elements with an
\* index out of range are dropped; every valid element, before and after a
\* malformed one, is appended and takes the next arrival index, so the
\* counter advances by the number of valid elements.
C16_AsStated ==
    (lastOp.op = "handleMsg" /\ loopOp.msg = "lines" /\ loopOp.index /\ ~panicked) =>
        last = lastOp.lastBefore
                 + Cardinality(validLineMsgs(dataIndex[1], ClientMsg("lines").data))

\* C17: handling a message makes at most one control call.  It is "request
\* file-set positions" exactly when the message is "connected".  It is
\* "request execution start" exactly when the message is file metadata that
\* handleFilesDataMsg applied without error, and the file table of that
\* message was installed in the index, under the data lock, before the call;
\* so no execution start is requested before metadata has been applied in
\* the run.  Whether the control call itself succeeds changes none of this.
C17_Protocol ==
    (lastOp.op = "handleMsg" /\ ~panicked) =>
        /\ loopOp.calls \in {<< >>, << "RequestFileSetPositions" >>, << "RequestStart" >>}
        /\ loopOp.calls = << "RequestFileSetPositions" >> <=> loopOp.msg = "connected"
        /\ loopOp.calls = << "RequestStart" >> <=>
               /\ ClientMsg(loopOp.msg).kind = "FilesDataMsg"
               /\ loopOp.index
               /\ loopOp.tableErr = ""
        /\ loopOp.calls = << "RequestStart" >> => loopOp.installed

\* The second message of the run was file metadata, and the execution start
\* was requested.
C17_Witness ==
    /\ lastOp.op = "handleMsg"
    /\ loopOp.calls = << "RequestStart" >>
    /\ runs[1].handled = 2

\* C18: a loop has at most one armed timer, and never more timer firings
\* than arms (the armed timers not yet fired are 0 or 1, and 1 exactly when
\* updatec is set).  Handling a message arms a timer exactly when none is
\* armed and asks for no refresh.  A timer firing asks for one refresh and
\* leaves the timer disarmed.  While the process runs, a message handled and
\* not yet followed by a refresh has the loop running with the timer armed,
\* or still inside handleMsg about to arm it, so the loop never returns
\* leaving a handled message without a refresh.
C18_Coalescing ==
    /\ \A r \in Runs :
          /\ runs[r].timers \in {0, 1}
          /\ runs[r].timers = 1 <=> runs[r].updatec
          /\ (runs[r].dirty /\ ~panicked) =>
                \/ runs[r].pc = "loop" /\ runs[r].updatec
                \/ runs[r].pc = "requestStart"
    /\ (lastOp.op = "handleMsg" /\ ~panicked) =>
          /\ loopOp.armed <=> ~loopOp.armedBefore
          /\ ~loopOp.refreshed
          /\ runs[loopOp.run].updatec
    /\ lastOp.op = "timer" =>
          /\ loopOp.armedBefore
          /\ loopOp.refreshed
          /\ ~runs[loopOp.run].updatec
          /\ uiQueue # << >> /\ uiQueue[Len(uiQueue)] = Closure("updateUI", "")

\* A second message was handled while the timer of the first was armed.
C18_Witness ==
    /\ lastOp.op = "handleMsg"
    /\ loopOp.armedBefore /\ ~loopOp.armed
    /\ runs[1].handled = 2
    /\ runs[1].timers = 1

\* C19 as stated: when the loop returns, on channel closure or on
\* cancellation, it has asked for one final refresh, whether or not the
\* timer was armed.
C19_AsStated ==
    lastOp.op = "return" => loopOp.refreshed

\* C19: when the loop returns, on channel closure or on cancellation, it has
\* asked for one final refresh, at once, exactly when the timer was armed;
\* with no timer armed it asks for none, and none is owed: either way the
\* loop has returned (the run is in cmd.Wait), no handled message is left
\* without a refresh and the timer is disarmed.
C19_FinalRefresh ==
    lastOp.op = "return" =>
        /\ loopOp.refreshed <=> loopOp.armedBefore
        /\ loopOp.refreshed =>
              (uiQueue # << >> /\ uiQueue[Len(uiQueue)] = Closure("updateUI", ""))
        /\ runs[loopOp.run].pc = "cmdWait"
        /\ ~runs[loopOp.run].updatec
        /\ ~runs[loopOp.run].dirty

\* The loop returned with the timer armed, after two messages.
C19_Witness ==
    /\ lastOp.op = "return"
    /\ loopOp.armedBefore /\ loopOp.refreshed
    /\ runs[1].handled = 2

\* ------------------------------------------- the data lock (SpecLock)
\* What ingestion, the gestures and the replacement of the index write: the
\* file table, the events with their arrival indices, the counter and the
\* cursor.  The rest of the index is the resolved selection (file, line,
\* step, edited), the per-line displayed entries and the per-event caches.
written(index) ==
    IF index = << >>
    THEN << >>
    ELSE LET di == index[1]
         IN  << [Afds |-> di.Afds,
                 filesIndexM |-> di.filesIndexM,
                 lastArrivalIndex |-> di.lastArrivalIndex,
                 cursor |-> di.selected.arrivalIndex,
                 events |->
                   [i \in 1 .. Len(di.Files) |->
                      IF di.Files[i] = << >> THEN << >>
                      ELSE << [l \in 1 .. Len(di.Files[i][1].LinesMsgs) |->
                                 [k \in 1 .. Len(di.Files[i][1].LinesMsgs[l]) |->
                                    [arrivalIndex |-> di.Files[i][1].LinesMsgs[l][k].arrivalIndex,
                                     dbgLineMsg |-> di.Files[i][1].LinesMsgs[l][k].dbgLineMsg]]] >>]] >>

\* The step runs a closure of the UI goroutine's queue: a refresh.
closureRuns == Len(uiQueue') < Len(uiQueue)

\* The step ends a critical section of goroutine g, which held gdi.data.mu
\* exclusively (no other goroutine held it, locked or read-locked), or
\* read-locked while no goroutine held it locked.
endsExclusive(g) ==
    /\ crit[g] = "W" /\ crit'[g] = ""
    /\ mu.w = << g >> /\ mu.r = {}
endsShared(g) ==
    /\ crit[g] = "R" /\ crit'[g] = ""
    /\ g \in mu.r /\ mu.w = << >>

\* C20 as stated: every step that changes the index, or replaces it, is
\* made while a goroutine holds gdi.data.mu exclusively; a step made holding
\* only the read lock, a refresh in particular, writes nothing to the index.
C20_AsStated ==
    [][dataIndex' # dataIndex => mu.w # << >>]_vars

\* C20: while a goroutine holds gdi.data.mu exclusively no other goroutine
\* holds it.  A step that changes the file table, the events, the arrival
\* counter or the cursor, or replaces the index, is made by a goroutine
\* holding the mutex exclusively.  A refresh is made by the UI goroutine
\* holding the read lock and nothing more; it does write to the index, but
\* only the resolved selection (file, line, step, edited), the per-line
\* displayed entries and the per-event caches.  No other step changes the
\* index.
C20_Locks ==
    [][/\ mu'.w # << >> => mu'.r = {}
       /\ written(dataIndex') # written(dataIndex) =>
              \E g \in DOMAIN crit : endsExclusive(g)
       /\ closureRuns =>
              /\ endsShared(UI)
              /\ written(dataIndex') = written(dataIndex)
       /\ dataIndex' # dataIndex =>
              \/ \E g \in DOMAIN crit : endsExclusive(g)
              \/ closureRuns]_vars

\* A refresh, made holding the read lock, has resolved the selection in
\* file "a" and filled the cache of its first event, after the run's
\* goroutine appended that event holding the mutex exclusively.
C20_Witness ==
    /\ UI \in DOMAIN crit
    /\ lastOp.op = "updateUI"
    /\ ret["a"].ran /\ ret["a"].found
    /\ dataIndex # << >>
    /\ dataIndex[1].Files # << >>
    /\ dataIndex[1].Files[1] # << >>
    /\ dataIndex[1].Files[1][1].LinesMsgs[1] # << >>
    /\ dataIndex[1].Files[1][1].LinesMsgs[1][1].cachedAnn # << >>

\* ------------------------------------------------- the reveal (SpecIndex)
\* C21 as stated: when the refresh that follows a changed gesture has run
\* showSelectedLine with the cursor at c >= 0, it has not failed on an index
\* out of range, and it has either opened the file and offset of the event
\* whose arrival index is c or warned that the file is edited; it has not
\* opened the location of another event.
C21_AsStated ==
    (lastOp.op = "updateUIShowLine" /\ lastOp.cursorBefore >= 0) =>
        /\ ~panicked
        /\ shown.kind \in {"open", "warning"}
        /\ shown.arrivalIndex = cursor

\* C22 as stated: after the Last gesture the cursor equals the arrival
\* counter, whatever the state it was made in.
C22_AsStated ==
    lastOp.op = "Last" => cursor = last

\* --------------------------------------- the life of events (SpecIndex)
\* The events of an index, per file record and line slot.
events(index) == written(index)[1].events

\* The gestures that are specified as moves of the cursor.
StepGestures == {"First", "Last", "Prev", "Next"} \cup LineGestures

\* C23 as stated: no selection gesture, Clear included, removes an event
\* from a line slot or changes the arrival counter.
C23_AsStated ==
    [][lastOp'.op \in StepGestures \cup {"Clear"} =>
          (events(dataIndex') = events(dataIndex) /\ last' = last)]_vars

\* ---------------------------------- the shown local position (SpecPrint)
\* C24 as stated: for every file record and line, the local position shown
\* (AnnEntriesLMIndex) is -1 or a position of the line's slot, from the
\* creation of the record on; and so no per-line Current, Print or PrintAll
\* gesture has failed on an index out of range.
C24_AsStated ==
    /\ \A i \in 1 .. Len(dataIndex[1].Files) :
          dataIndex[1].Files[i] # << >> =>
             LET file == dataIndex[1].Files[i][1]
             IN  \A l \in 1 .. Len(file.LinesMsgs) :
                    \/ file.AnnEntriesLMIndex[l] = -1
                    \/ /\ 0 <= file.AnnEntriesLMIndex[l]
                       /\ file.AnnEntriesLMIndex[l] < Len(file.LinesMsgs[l])
    /\ lastOp.op \in LineGestures \cup PrintGestures => ~panicked

\* -------------------------------------- the filename map (SpecIndex)
\* C25 as stated: while the process runs, every filename of filesIndexM maps
\* to a position of the file table that holds a file record, also after a
\* handleFilesDataMsg that returned an error or whose descriptors repeat a
\* file index.
C25_AsStated ==
    ~panicked =>
        \A key \in DOMAIN dataIndex[1].filesIndexM :
            LET fi == dataIndex[1].filesIndexM[key]
            IN  /\ 0 <= fi /\ fi < Len(dataIndex[1].Files)
                /\ dataIndex[1].Files[fi + 1] # << >>
====
